---- MODULE Spec2Model ----
(***************************************************************************)
(* Model of the realtime input-audio-buffer event router of speaches       *)
(* (src/speaches/realtime/input_audio_buffer_event_router.py) and of the   *)
(* default session configuration (src/speaches/realtime/session.py).       *)
(*                                                                         *)
(* One session is modelled.  Its context holds the insertion-ordered       *)
(* mapping of input audio buffers, the insertion-ordered conversation and  *)
(* the pubsub on which the handlers publish.  Client events (append,       *)
(* commit, clear) arrive at any time; published events are delivered to    *)
(* the event router in publication order, interleaved with client events.  *)
(*                                                                         *)
(* Audio data is represented by its length in samples: the handlers read   *)
(* nothing of the data but its length, and the acoustic VAD that reads the *)
(* samples is an external capability whose answer is a nondeterministic    *)
(* input of the append handler.                                            *)
(***************************************************************************)
EXTENDS Integers, Naturals, Sequences, FiniteSets, TLC

VARIABLES
    input_audio_buffers,  \* ctx.input_audio_buffers: ordered dict id -> InputAudioBuffer
    conversation,         \* ctx.conversation: ordered dict id -> ConversationItem
    turn_detection,       \* ctx.configuration.turn_detection (None or a TurnDetection)
    events,               \* everything published on ctx.pubsub, in publication order
    dispatched,           \* how many published events the event router has been handed
    next_id,              \* number of ids generate_item_id has handed out
    vad_invoked,          \* whether get_speech_timestamps has been called in this session
    ops,                  \* number of client events processed
    op                    \* the handler that ran last, with its inputs

vars == <<input_audio_buffers, conversation, turn_detection, events,
          dispatched, next_id, vad_invoked, ops, op>>

----------------------------------------------------------------------------
(* Bounds of the model *)

\* client events processed in one run
MaxOps == 4

\* speech spans the VAD may return in one evaluation
MaxSpans == 2

\* lengths, in samples at 24 kHz, of the chunks a client may append
RawChunkLens == {1, 36000, 72024}

\* sample offsets, relative to the window, at which a VAD span may start or end
SpanOffsets == {0, 44808, 48000}

\* values of prefix_padding_ms a session may be configured with
PrefixPaddings == {0, 300}

\* longest array handed to the resampler on its own
MaxResampleLen == 40

\* <<sample_rate, target_sample_rate>> pairs handed to the resampler on its own:
\* the one the append handler uses, and pairs whose ratio is an exact float
RatePairs == {<<24000, 16000>>, <<16000, 16000>>, <<8000, 16000>>,
              <<16000, 24000>>, <<32000, 16000>>}

----------------------------------------------------------------------------
(* Program constants *)

SAMPLE_RATE == 16000

MS_SAMPLE_RATE == 16

MAX_VAD_WINDOW_SIZE_SAMPLES == 3000 * MS_SAMPLE_RATE

\* the rate of the audio the API receives
API_SAMPLE_RATE == 24000

\* the literal 3000 of the stale-span test
STALE_SPAN_MS == 3000

\* Python's None, and an optional value that is set
None == <<>>

Some(v) == <<v>>

IDK == "IDK"

empty_input_audio_buffer_commit_error ==
    [type |-> "invalid_request_error",
     message |-> "Error committing input audio buffer: the buffer is empty."]

----------------------------------------------------------------------------
(* Collaborators of the router *)

\* the n-th id generate_item_id returns: ids are opaque and never repeat
generate_item_id(n) == "item_" \o ToString(n)

VadState == [audio_start_ms |-> None, audio_end_ms |-> None]

\* InputAudioBuffer(): a fresh id, no data, unset VAD state
InputAudioBuffer(n) == [id |-> generate_item_id(n), size |-> 0, vad_state |-> VadState]

\* InputAudioBuffer.append
buffer_append(buffer, audio_chunk_len) ==
    [buffer EXCEPT !.size = buffer.size + audio_chunk_len]

\* InputAudioBuffer.duration_ms
duration_ms(buffer) == buffer.size \div MS_SAMPLE_RATE

\* next(reversed(d)) of an ordered dict
last_key(d) == d[Len(d)].id

\* next(reversed(d), None)
last_key_or_none(d) == IF Len(d) = 0 THEN None ELSE Some(d[Len(d)].id)

\* d.popitem(): removes the entry inserted last
popitem(d) == SubSeq(d, 1, Len(d) - 1)

\* d[key] = value: a known key keeps its place, a new key goes last
dict_set(d, value) ==
    IF \E i \in 1..Len(d) : d[i].id = value.id
    THEN [i \in 1..Len(d) |-> IF d[i].id = value.id THEN value ELSE d[i]]
    ELSE Append(d, value)

keys(d) == {d[i].id : i \in 1..Len(d)}

Min(a, b) == IF a < b THEN a ELSE b

Spans == {[start |-> s, end |-> e] : s \in SpanOffsets, e \in SpanOffsets}

\* the answers get_speech_timestamps may give for a window of window_len samples:
\* at most MaxSpans spans inside the window, in increasing order
get_speech_timestamps(window_len) ==
    LET inside == {sp \in Spans : sp.start < sp.end /\ sp.end <= window_len}
    IN  UNION {{ts \in [1..n -> inside] :
                    \A i \in 1..(n - 1) : ts[i].end <= ts[i + 1].start}
               : n \in 0..MaxSpans}

----------------------------------------------------------------------------
(* Pure functions of the router *)

\* resample_audio_data with the target length rounded to the nearest integer
resample_audio_data_rounding(data_len, sample_rate, target_sample_rate) ==
    (2 * data_len * target_sample_rate + sample_rate) \div (2 * sample_rate)

\* length of the array resample_audio_data returns for data_len samples:
\* int(len(data) * ratio) cuts the product off below
resample_audio_data(data_len, sample_rate, target_sample_rate) ==
    (data_len * target_sample_rate) \div sample_rate

\* to_ms_speech_timestamps that leaves the offsets in samples
to_ms_speech_timestamps_in_samples(speech_timestamps) ==
    [i \in 1..Len(speech_timestamps) |->
        [start |-> speech_timestamps[i].start, end |-> speech_timestamps[i].end]]

to_ms_speech_timestamps(speech_timestamps) ==
    [i \in 1..Len(speech_timestamps) |->
        [start |-> speech_timestamps[i].start \div MS_SAMPLE_RATE,
         end   |-> speech_timestamps[i].end \div MS_SAMPLE_RATE]]

\* vad_detection_flow that takes a span seen on a started buffer as a new start
vad_detection_flow_restarting(input_audio_buffer, td, vad_answer) ==
    LET audio_window_len == Min(input_audio_buffer.size, MAX_VAD_WINDOW_SIZE_SAMPLES)
        speech_timestamps == to_ms_speech_timestamps(vad_answer)
        stopped == [input_audio_buffer EXCEPT !.vad_state.audio_end_ms =
                        Some(duration_ms(input_audio_buffer) - td.prefix_padding_ms)]
    IN  IF speech_timestamps # <<>>
        THEN LET start_ms == duration_ms(input_audio_buffer)
                               - audio_window_len \div MS_SAMPLE_RATE
                               + speech_timestamps[Len(speech_timestamps)].start
             IN  [buffer |-> [input_audio_buffer EXCEPT
                                 !.vad_state.audio_start_ms = Some(start_ms)],
                  event  |-> Some([type |-> "input_audio_buffer.speech_started",
                                   item_id |-> input_audio_buffer.id,
                                   audio_start_ms |-> start_ms])]
        ELSE IF input_audio_buffer.vad_state.audio_start_ms = None
             THEN [buffer |-> input_audio_buffer, event |-> None]
             ELSE [buffer |-> stopped,
                   event  |-> Some([type |-> "input_audio_buffer.speech_stopped",
                                    item_id |-> input_audio_buffer.id,
                                    audio_end_ms |-> stopped.vad_state.audio_end_ms[1]])]

\* vad_detection_flow whose stale-span test leaves out the buffer's duration
vad_detection_flow_ignoring_duration(input_audio_buffer, td, vad_answer) ==
    LET audio_window_len == Min(input_audio_buffer.size, MAX_VAD_WINDOW_SIZE_SAMPLES)
        speech_timestamps == to_ms_speech_timestamps(vad_answer)
        speech_timestamp == IF Len(speech_timestamps) > 0
                            THEN Some(speech_timestamps[Len(speech_timestamps)])
                            ELSE None
        stopped == [input_audio_buffer EXCEPT !.vad_state.audio_end_ms =
                        Some(duration_ms(input_audio_buffer) - td.prefix_padding_ms)]
        speech_stopped ==
            [buffer |-> stopped,
             event  |-> Some([type |-> "input_audio_buffer.speech_stopped",
                              item_id |-> input_audio_buffer.id,
                              audio_end_ms |-> stopped.vad_state.audio_end_ms[1]])]
        nothing == [buffer |-> input_audio_buffer, event |-> None]
    IN  IF input_audio_buffer.vad_state.audio_start_ms = None
        THEN IF speech_timestamp = None
             THEN nothing
             ELSE LET start_ms == duration_ms(input_audio_buffer)
                                    - audio_window_len \div MS_SAMPLE_RATE
                                    + speech_timestamp[1].start
                  IN  [buffer |-> [input_audio_buffer EXCEPT
                                      !.vad_state.audio_start_ms = Some(start_ms)],
                       event  |-> Some([type |-> "input_audio_buffer.speech_started",
                                        item_id |-> input_audio_buffer.id,
                                        audio_start_ms |-> start_ms])]
        ELSE IF speech_timestamp = None
             THEN speech_stopped
             ELSE IF speech_timestamp[1].end < STALE_SPAN_MS
                  THEN speech_stopped
                  ELSE nothing

\* vad_detection_flow that uses the first span of the VAD's answer
vad_detection_flow_first_span(input_audio_buffer, td, vad_answer) ==
    LET audio_window_len == Min(input_audio_buffer.size, MAX_VAD_WINDOW_SIZE_SAMPLES)
        speech_timestamps == to_ms_speech_timestamps(vad_answer)
        speech_timestamp == IF Len(speech_timestamps) > 0
                            THEN Some(speech_timestamps[1])
                            ELSE None
        stopped == [input_audio_buffer EXCEPT !.vad_state.audio_end_ms =
                        Some(duration_ms(input_audio_buffer) - td.prefix_padding_ms)]
        speech_stopped ==
            [buffer |-> stopped,
             event  |-> Some([type |-> "input_audio_buffer.speech_stopped",
                              item_id |-> input_audio_buffer.id,
                              audio_end_ms |-> stopped.vad_state.audio_end_ms[1]])]
        nothing == [buffer |-> input_audio_buffer, event |-> None]
    IN  IF input_audio_buffer.vad_state.audio_start_ms = None
        THEN IF speech_timestamp = None
             THEN nothing
             ELSE LET start_ms == duration_ms(input_audio_buffer)
                                    - audio_window_len \div MS_SAMPLE_RATE
                                    + speech_timestamp[1].start
                  IN  [buffer |-> [input_audio_buffer EXCEPT
                                      !.vad_state.audio_start_ms = Some(start_ms)],
                       event  |-> Some([type |-> "input_audio_buffer.speech_started",
                                        item_id |-> input_audio_buffer.id,
                                        audio_start_ms |-> start_ms])]
        ELSE IF speech_timestamp = None
             THEN speech_stopped
             ELSE IF speech_timestamp[1].end < STALE_SPAN_MS
                     /\ duration_ms(input_audio_buffer) > STALE_SPAN_MS
                  THEN speech_stopped
                  ELSE nothing

\* vad_detection_flow that takes silence in a buffer without speech for its end
vad_detection_flow_stopping_unstarted(input_audio_buffer, td, vad_answer) ==
    LET audio_window_len == Min(input_audio_buffer.size, MAX_VAD_WINDOW_SIZE_SAMPLES)
        speech_timestamps == to_ms_speech_timestamps(vad_answer)
        speech_timestamp == IF Len(speech_timestamps) > 0
                            THEN Some(speech_timestamps[Len(speech_timestamps)])
                            ELSE None
        stopped == [input_audio_buffer EXCEPT !.vad_state.audio_end_ms =
                        Some(duration_ms(input_audio_buffer) - td.prefix_padding_ms)]
        speech_stopped ==
            [buffer |-> stopped,
             event  |-> Some([type |-> "input_audio_buffer.speech_stopped",
                              item_id |-> input_audio_buffer.id,
                              audio_end_ms |-> stopped.vad_state.audio_end_ms[1]])]
        nothing == [buffer |-> input_audio_buffer, event |-> None]
    IN  IF input_audio_buffer.vad_state.audio_start_ms = None
        THEN IF speech_timestamp = None
             THEN IF input_audio_buffer.size > 0 THEN speech_stopped ELSE nothing
             ELSE LET start_ms == duration_ms(input_audio_buffer)
                                    - audio_window_len \div MS_SAMPLE_RATE
                                    + speech_timestamp[1].start
                  IN  [buffer |-> [input_audio_buffer EXCEPT
                                      !.vad_state.audio_start_ms = Some(start_ms)],
                       event  |-> Some([type |-> "input_audio_buffer.speech_started",
                                        item_id |-> input_audio_buffer.id,
                                        audio_start_ms |-> start_ms])]
        ELSE IF speech_timestamp = None
             THEN speech_stopped
             ELSE IF speech_timestamp[1].end < STALE_SPAN_MS
                     /\ duration_ms(input_audio_buffer) > STALE_SPAN_MS
                  THEN speech_stopped
                  ELSE nothing

\* vad_detection_flow: the buffer as the call leaves it and the event returned.
\* vad_answer is what get_speech_timestamps returned for the trailing window.
vad_detection_flow(input_audio_buffer, td, vad_answer) ==
    LET audio_window_len == Min(input_audio_buffer.size, MAX_VAD_WINDOW_SIZE_SAMPLES)
        speech_timestamps == to_ms_speech_timestamps(vad_answer)
        speech_timestamp == IF Len(speech_timestamps) > 0
                            THEN Some(speech_timestamps[Len(speech_timestamps)])
                            ELSE None
        stopped == [input_audio_buffer EXCEPT !.vad_state.audio_end_ms =
                        Some(duration_ms(input_audio_buffer) - td.prefix_padding_ms)]
        speech_stopped ==
            [buffer |-> stopped,
             event  |-> Some([type |-> "input_audio_buffer.speech_stopped",
                              item_id |-> input_audio_buffer.id,
                              audio_end_ms |-> stopped.vad_state.audio_end_ms[1]])]
        nothing == [buffer |-> input_audio_buffer, event |-> None]
    IN  IF input_audio_buffer.vad_state.audio_start_ms = None
        THEN IF speech_timestamp = None
             THEN nothing
             ELSE LET start_ms == duration_ms(input_audio_buffer)
                                    - audio_window_len \div MS_SAMPLE_RATE
                                    + speech_timestamp[1].start
                  IN  [buffer |-> [input_audio_buffer EXCEPT
                                      !.vad_state.audio_start_ms = Some(start_ms)],
                       event  |-> Some([type |-> "input_audio_buffer.speech_started",
                                        item_id |-> input_audio_buffer.id,
                                        audio_start_ms |-> start_ms])]
        ELSE IF speech_timestamp = None
             THEN speech_stopped
             ELSE IF speech_timestamp[1].end < STALE_SPAN_MS
                     /\ duration_ms(input_audio_buffer) > STALE_SPAN_MS
                  THEN speech_stopped
                  ELSE nothing

----------------------------------------------------------------------------
(* Handlers *)

publish_nowait(event) == events' = Append(events, event)

\* append that takes the buffer inserted first for the active one
append_to_first_buffer(raw_len, vad_answer) ==
    LET audio_chunk_len == resample_audio_data(raw_len, API_SAMPLE_RATE, SAMPLE_RATE)
        appended == buffer_append(input_audio_buffers[1], audio_chunk_len)
    IN  IF turn_detection # None
        THEN LET r == vad_detection_flow(appended, turn_detection, vad_answer)
             IN  /\ input_audio_buffers' = [input_audio_buffers EXCEPT ![1] = r.buffer]
                 /\ IF r.event # None
                    THEN publish_nowait(r.event[1])
                    ELSE UNCHANGED events
                 /\ vad_invoked' = TRUE
                 /\ UNCHANGED <<conversation, next_id>>
        ELSE /\ input_audio_buffers' = [input_audio_buffers EXCEPT ![1] = appended]
             /\ UNCHANGED <<conversation, events, next_id, vad_invoked>>

\* append that evaluates the buffer whether or not turn detection is configured
append_always_evaluating(raw_len, vad_answer) ==
    LET audio_chunk_len == resample_audio_data(raw_len, API_SAMPLE_RATE, SAMPLE_RATE)
        n == Len(input_audio_buffers)
        appended == buffer_append(input_audio_buffers[n], audio_chunk_len)
        td == IF turn_detection # None THEN turn_detection
              ELSE [prefix_padding_ms |-> 0, silence_duration_ms |-> 550]
        r == vad_detection_flow(appended, td, vad_answer)
    IN  /\ input_audio_buffers' = [input_audio_buffers EXCEPT ![n] = r.buffer]
        /\ IF r.event # None
           THEN publish_nowait(r.event[1])
           ELSE UNCHANGED events
        /\ vad_invoked' = TRUE
        /\ UNCHANGED <<conversation, next_id>>

\* input_audio_buffer.append
handle_input_audio_buffer_append(raw_len, vad_answer) ==
    LET audio_chunk_len == resample_audio_data(raw_len, API_SAMPLE_RATE, SAMPLE_RATE)
        n == Len(input_audio_buffers)
        appended == buffer_append(input_audio_buffers[n], audio_chunk_len)
    IN  IF turn_detection # None
        THEN LET r == vad_detection_flow(appended, turn_detection, vad_answer)
             IN  /\ input_audio_buffers' = [input_audio_buffers EXCEPT ![n] = r.buffer]
                 /\ IF r.event # None
                    THEN publish_nowait(r.event[1])
                    ELSE UNCHANGED events
                 /\ vad_invoked' = TRUE
                 /\ UNCHANGED <<conversation, next_id>>
        ELSE /\ input_audio_buffers' = [input_audio_buffers EXCEPT ![n] = appended]
             /\ UNCHANGED <<conversation, events, next_id, vad_invoked>>

\* commit without the test for an empty buffer
commit_without_size_test ==
    /\ publish_nowait([type |-> "input_audio_buffer.committed",
                        previous_item_id |-> last_key_or_none(conversation),
                        item_id |-> last_key(input_audio_buffers)])
    /\ input_audio_buffers' =
           dict_set(input_audio_buffers, InputAudioBuffer(next_id + 1))
    /\ next_id' = next_id + 1
    /\ UNCHANGED <<conversation, vad_invoked>>

\* commit that puts the new buffer in the place of the committed one
commit_replacing_buffer ==
    IF input_audio_buffers[Len(input_audio_buffers)].size = 0
    THEN /\ publish_nowait([type |-> "error",
                            error |-> empty_input_audio_buffer_commit_error])
         /\ UNCHANGED <<input_audio_buffers, conversation, next_id, vad_invoked>>
    ELSE /\ publish_nowait([type |-> "input_audio_buffer.committed",
                            previous_item_id |-> last_key_or_none(conversation),
                            item_id |-> last_key(input_audio_buffers)])
         /\ input_audio_buffers' =
                dict_set(popitem(input_audio_buffers), InputAudioBuffer(next_id + 1))
         /\ next_id' = next_id + 1
         /\ UNCHANGED <<conversation, vad_invoked>>

\* commit that names the placeholder of the speech_stopped handler when the
\* conversation is empty
commit_with_placeholder ==
    IF input_audio_buffers[Len(input_audio_buffers)].size = 0
    THEN /\ publish_nowait([type |-> "error",
                            error |-> empty_input_audio_buffer_commit_error])
         /\ UNCHANGED <<input_audio_buffers, conversation, next_id, vad_invoked>>
    ELSE /\ publish_nowait([type |-> "input_audio_buffer.committed",
                            previous_item_id |-> IF conversation = <<>>
                                                 THEN Some(IDK)
                                                 ELSE last_key_or_none(conversation),
                            item_id |-> last_key(input_audio_buffers)])
         /\ input_audio_buffers' =
                dict_set(input_audio_buffers, InputAudioBuffer(next_id + 1))
         /\ next_id' = next_id + 1
         /\ UNCHANGED <<conversation, vad_invoked>>

\* input_audio_buffer.commit
handle_input_audio_buffer_commit ==
    LET input_audio_buffer_id == last_key(input_audio_buffers)
        input_audio_buffer == input_audio_buffers[Len(input_audio_buffers)]
    IN  IF input_audio_buffer.size = 0
        THEN /\ publish_nowait([type |-> "error",
                                error |-> empty_input_audio_buffer_commit_error])
             /\ UNCHANGED <<input_audio_buffers, conversation, next_id, vad_invoked>>
        ELSE /\ publish_nowait([type |-> "input_audio_buffer.committed",
                                previous_item_id |-> last_key_or_none(conversation),
                                item_id |-> input_audio_buffer_id])
             /\ input_audio_buffers' =
                    dict_set(input_audio_buffers, InputAudioBuffer(next_id + 1))
             /\ next_id' = next_id + 1
             /\ UNCHANGED <<conversation, vad_invoked>>

\* clear that leaves the active buffer in the mapping
clear_without_popitem ==
    /\ publish_nowait([type |-> "input_audio_buffer.cleared"])
    /\ input_audio_buffers' =
           dict_set(input_audio_buffers, InputAudioBuffer(next_id + 1))
    /\ next_id' = next_id + 1
    /\ UNCHANGED <<conversation, vad_invoked>>

\* input_audio_buffer.clear
handle_input_audio_buffer_clear ==
    /\ publish_nowait([type |-> "input_audio_buffer.cleared"])
    /\ input_audio_buffers' =
           dict_set(popitem(input_audio_buffers), InputAudioBuffer(next_id + 1))
    /\ next_id' = next_id + 1
    /\ UNCHANGED <<conversation, vad_invoked>>

\* speech_stopped handler without the placeholder for an empty conversation
speech_stopped_without_placeholder(event) ==
    /\ input_audio_buffers' =
           dict_set(input_audio_buffers, InputAudioBuffer(next_id + 1))
    /\ next_id' = next_id + 1
    /\ publish_nowait([type |-> "input_audio_buffer.committed",
                        previous_item_id |-> last_key_or_none(conversation),
                        item_id |-> event.item_id])
    /\ UNCHANGED <<conversation, vad_invoked>>

\* input_audio_buffer.speech_stopped
handle_input_audio_buffer_speech_stopped(event) ==
    LET previous_item_id == last_key_or_none(conversation)
    IN  /\ input_audio_buffers' =
               dict_set(input_audio_buffers, InputAudioBuffer(next_id + 1))
        /\ next_id' = next_id + 1
        /\ publish_nowait([type |-> "input_audio_buffer.committed",
                           previous_item_id |-> IF previous_item_id # None
                                                THEN previous_item_id
                                                ELSE Some(IDK),
                           item_id |-> event.item_id])
        /\ UNCHANGED <<conversation, vad_invoked>>

\* committed handler that creates no item for an id the conversation holds
committed_skipping_known_item(event) ==
    LET item == [id |-> event.item_id,
                 object |-> "realtime.item",
                 status |-> "completed",
                 role |-> "user",
                 content |-> <<[transcript |-> None, type |-> "input_audio"]>>,
                 type |-> "message"]
    IN  IF event.item_id \in keys(conversation)
        THEN UNCHANGED <<input_audio_buffers, conversation, events, next_id, vad_invoked>>
        ELSE /\ conversation' = dict_set(conversation, item)
             /\ publish_nowait([type |-> "conversation.item.created",
                                previous_item_id |-> None,
                                item |-> item])
             /\ UNCHANGED <<input_audio_buffers, next_id, vad_invoked>>

\* input_audio_buffer.committed
handle_input_audio_buffer_committed(event) ==
    LET item == [id |-> event.item_id,
                 object |-> "realtime.item",
                 status |-> "completed",
                 role |-> "user",
                 content |-> <<[transcript |-> None, type |-> "input_audio"]>>,
                 type |-> "message"]
    IN  /\ conversation' = dict_set(conversation, item)
        /\ publish_nowait([type |-> "conversation.item.created",
                           previous_item_id |-> None,
                           item |-> item])
        /\ UNCHANGED <<input_audio_buffers, next_id, vad_invoked>>

----------------------------------------------------------------------------
(* The session *)

\* create_session_configuration's TurnDetection, with the padding a session may set
TurnDetection(prefix_padding_ms) ==
    [prefix_padding_ms |-> prefix_padding_ms, silence_duration_ms |-> 550]

\* a new session: one empty buffer, an empty conversation, nothing published
Init ==
    /\ input_audio_buffers = <<InputAudioBuffer(1)>>
    /\ next_id = 1
    /\ conversation = <<>>
    /\ events = <<>>
    /\ dispatched = 0
    /\ turn_detection \in {None} \cup {TurnDetection(p) : p \in PrefixPaddings}
    /\ vad_invoked = FALSE
    /\ ops = 0
    /\ op = [name |-> "init"]

\* a client event reaches its handler
client_event ==
    /\ ops < MaxOps
    /\ ops' = ops + 1
    /\ UNCHANGED <<dispatched, turn_detection>>

Append_ ==
    \E raw_len \in RawChunkLens :
        LET n == Len(input_audio_buffers)
            size == input_audio_buffers[n].size
                      + resample_audio_data(raw_len, API_SAMPLE_RATE, SAMPLE_RATE)
        IN  \E vad_answer \in get_speech_timestamps(Min(size, MAX_VAD_WINDOW_SIZE_SAMPLES)) :
                /\ handle_input_audio_buffer_append(raw_len, vad_answer)
                /\ client_event
                /\ op' = [name |-> "input_audio_buffer.append",
                          raw_len |-> raw_len,
                          vad_answer |-> IF vad_invoked' THEN vad_answer ELSE <<>>]

Commit ==
    /\ handle_input_audio_buffer_commit
    /\ client_event
    /\ op' = [name |-> "input_audio_buffer.commit"]

Clear ==
    /\ handle_input_audio_buffer_clear
    /\ client_event
    /\ op' = [name |-> "input_audio_buffer.clear"]

\* the events this router has a handler registered for
Handled == {"input_audio_buffer.speech_stopped", "input_audio_buffer.committed"}

\* the published events not yet handed to the router that it has a handler for;
\* the other events reach no handler of this router and are passed over
pending == {i \in (dispatched + 1)..Len(events) : events[i].type \in Handled}

RECURSIVE min_of(_)
min_of(S) == LET x == CHOOSE y \in S : TRUE
             IN  IF S = {x} THEN x ELSE Min(x, min_of(S \ {x}))

\* the event the router is handed next: events are delivered in publication order
next_event == events[min_of(pending)]

\* a published event reaches its handler
server_event ==
    /\ dispatched' = min_of(pending)
    /\ op' = [name |-> next_event.type, event |-> next_event]
    /\ UNCHANGED <<ops, turn_detection>>

DispatchSpeechStopped ==
    /\ pending # {}
    /\ next_event.type = "input_audio_buffer.speech_stopped"
    /\ handle_input_audio_buffer_speech_stopped(next_event)
    /\ server_event

DispatchCommitted ==
    /\ pending # {}
    /\ next_event.type = "input_audio_buffer.committed"
    /\ handle_input_audio_buffer_committed(next_event)
    /\ server_event

Dispatch == DispatchSpeechStopped \/ DispatchCommitted

Next ==
    \/ Append_
    \/ Commit
    \/ Clear
    \/ DispatchSpeechStopped
    \/ DispatchCommitted

Spec == Init /\ [][Next]_vars

\* events published on the pubsub are delivered to their handlers
FairSpec == Spec /\ WF_vars(Dispatch)

\* the resampler on its own: a call with an array of any length up to
\* MaxResampleLen and a pair of rates, outside any session event
Resample ==
    /\ \E data_len \in 0..MaxResampleLen : \E rates \in RatePairs :
           op' = [name |-> "resample_audio_data",
                  data_len |-> data_len,
                  sample_rate |-> rates[1],
                  target_sample_rate |-> rates[2],
                  out_len |-> resample_audio_data(data_len, rates[1], rates[2])]
    /\ UNCHANGED <<input_audio_buffers, conversation, turn_detection, events,
                   dispatched, next_id, vad_invoked, ops>>

ResampleSpec == Init /\ [][Resample]_vars

----------------------------------------------------------------------------
(* Vocabulary of the properties *)

\* the active buffer: the one inserted last
active == input_audio_buffers[Len(input_audio_buffers)]

\* the events a step publishes
published == SubSeq(events', Len(events) + 1, Len(events'))

\* a step only adds to what has been published
events_extended ==
    /\ Len(events') >= Len(events)
    /\ SubSeq(events', 1, Len(events)) = events

\* a buffer as InputAudioBuffer() leaves it
is_fresh(buffer) == buffer.size = 0 /\ buffer.vad_state = VadState

ran(name) == op'.name = name

----------------------------------------------------------------------------
(* C1: a commit while the active buffer is empty publishes exactly one     *)
(* event, the invalid_request_error error event, and changes neither the   *)
(* buffer mapping (so the active buffer id stays) nor the conversation.    *)
C1_CommitEmpty ==
    [][(ran("input_audio_buffer.commit") /\ active.size = 0) =>
          /\ events_extended
          /\ published = <<[type |-> "error",
                            error |-> [type |-> "invalid_request_error",
                                       message |-> empty_input_audio_buffer_commit_error.message]]>>
          /\ input_audio_buffers' = input_audio_buffers
          /\ last_key(input_audio_buffers') = last_key(input_audio_buffers)
          /\ conversation' = conversation]_vars

\* an empty commit has run right after a rotation
C1_Witness ==
    /\ op.name = "input_audio_buffer.commit"
    /\ events # <<>>
    /\ events[Len(events)].type = "error"
    /\ Len(input_audio_buffers) > 1
    /\ active.size = 0

C3_Clear ==
    [][ran("input_audio_buffer.clear") =>
          /\ events_extended
          /\ published = <<[type |-> "input_audio_buffer.cleared"]>>
          /\ active.id \notin keys(input_audio_buffers')
          /\ Len(input_audio_buffers') = Len(input_audio_buffers)
          /\ popitem(input_audio_buffers') = popitem(input_audio_buffers)
          /\ is_fresh(input_audio_buffers'[Len(input_audio_buffers')])
          /\ last_key(input_audio_buffers') # active.id
          /\ conversation' = conversation]_vars

\* a closed buffer has been cleared while older buffers exist
C3_Witness ==
    /\ op.name = "input_audio_buffer.clear"
    /\ events[Len(events)].type = "input_audio_buffer.cleared"
    /\ Len(input_audio_buffers) > 1
    /\ \E i \in 1..Len(events) :
           /\ events[i].type = "input_audio_buffer.speech_stopped"
           /\ events[i].item_id \notin keys(input_audio_buffers)

(* C4: the turn-detection evaluation does not re-enter a closed buffer:    *)
(* an append that evaluates an active buffer whose audio_end_ms is set     *)
(* publishes no event and leaves audio_start_ms and audio_end_ms as they   *)
(* were, whatever the VAD answers.                                         *)
C4_ClosedBufferNotReentered ==
    [][(/\ ran("input_audio_buffer.append")
        /\ turn_detection # None
        /\ active.vad_state.audio_end_ms # None) =>
          /\ events' = events
          /\ input_audio_buffers'[Len(input_audio_buffers)].vad_state = active.vad_state]_vars

\* a step keeps the audio_start_ms that a buffer has
C5_StartKept ==
    \A i \in 1..Len(input_audio_buffers) : \A j \in 1..Len(input_audio_buffers') :
        (/\ input_audio_buffers[i].id = input_audio_buffers'[j].id
         /\ input_audio_buffers[i].vad_state.audio_start_ms # None) =>
            input_audio_buffers'[j].vad_state.audio_start_ms
                = input_audio_buffers[i].vad_state.audio_start_ms

\* one speech_started per buffer id, and no end without a start
C5_OneStartPerBuffer ==
    /\ \A i, j \in 1..Len(events) :
           (/\ events[i].type = "input_audio_buffer.speech_started"
            /\ events[j].type = "input_audio_buffer.speech_started"
            /\ events[i].item_id = events[j].item_id) => i = j
    /\ \A i \in 1..Len(input_audio_buffers) :
           input_audio_buffers[i].vad_state.audio_end_ms # None =>
               input_audio_buffers[i].vad_state.audio_start_ms # None

(* C5: audio_start_ms of a buffer, once set, is never unset and never      *)
(* changes; at most one speech_started event is published per buffer id;   *)
(* and audio_end_ms set implies audio_start_ms set.                        *)
C5_StartSetOnce == [][C5_StartKept]_vars /\ []C5_OneStartPerBuffer

\* a started buffer has been evaluated again, with a span in the window from
\* which another start would have been computed
C5_Witness ==
    /\ op.name = "input_audio_buffer.append"
    /\ op.vad_answer # <<>>
    /\ active.vad_state.audio_start_ms # None
    /\ active.vad_state.audio_end_ms = None
    /\ LET ts == to_ms_speech_timestamps(op.vad_answer)
       IN  duration_ms(active)
             - Min(active.size, MAX_VAD_WINDOW_SIZE_SAMPLES) \div MS_SAMPLE_RATE
             + ts[Len(ts)].start # active.vad_state.audio_start_ms[1]
    /\ \E i \in 1..Len(events) :
           /\ events[i].type = "input_audio_buffer.speech_started"
           /\ events[i].item_id = active.id

(* C6: the speech_stopped handler, run for a speech_stopped event with     *)
(* item_id = B, installs a new empty active buffer and publishes exactly   *)
(* one committed event with item_id = B and previous_item_id = the id of   *)
(* the last conversation item, or "IDK" when the conversation is empty; it *)
(* removes no buffer and adds no conversation item.                        *)
C6_SpeechStoppedHandler ==
    [][ran("input_audio_buffer.speech_stopped") =>
          /\ events_extended
          /\ published =
                <<[type |-> "input_audio_buffer.committed",
                   previous_item_id |-> IF conversation = <<>>
                                        THEN <<"IDK">>
                                        ELSE <<conversation[Len(conversation)].id>>,
                   item_id |-> op'.event.item_id]>>
          /\ Len(input_audio_buffers') = Len(input_audio_buffers) + 1
          /\ SubSeq(input_audio_buffers', 1, Len(input_audio_buffers)) = input_audio_buffers
          /\ is_fresh(input_audio_buffers'[Len(input_audio_buffers')])
          /\ last_key(input_audio_buffers') \notin keys(input_audio_buffers)
          /\ conversation' = conversation]_vars

\* the handler has run while the conversation held an item
C6_Witness ==
    /\ op.name = "input_audio_buffer.speech_stopped"
    /\ conversation # <<>>
    /\ events[Len(events)].type = "input_audio_buffer.committed"
    /\ events[Len(events)].item_id = op.event.item_id
    /\ events[Len(events)].previous_item_id = <<conversation[Len(conversation)].id>>
    /\ is_fresh(active)

\* the mapping is not empty, its ids differ, and the last id generated is the
\* last key
C7_OneActive ==
    /\ Len(input_audio_buffers) >= 1
    /\ \A i, j \in 1..Len(input_audio_buffers) :
           input_audio_buffers[i].id = input_audio_buffers[j].id => i = j
    /\ last_key(input_audio_buffers) = generate_item_id(next_id)

\* a step leaves every buffer but the active one as it was, and an append
\* adds the resampled chunk to the active one
C7_HistoryKept ==
    /\ \A i \in 1..(Len(input_audio_buffers) - 1) :
           /\ i <= Len(input_audio_buffers')
           /\ input_audio_buffers'[i] = input_audio_buffers[i]
    /\ ran("input_audio_buffer.append") =>
           /\ Len(input_audio_buffers') = Len(input_audio_buffers)
           /\ input_audio_buffers'[Len(input_audio_buffers)].id = active.id
           /\ input_audio_buffers'[Len(input_audio_buffers)].size =
                  active.size + (2 * op'.raw_len) \div 3

(* C7: the buffer mapping is never empty and its active buffer is the one  *)
(* inserted last; an append adds its samples to the active buffer only and *)
(* no step changes the data or VAD state of a buffer that is not active.   *)
C7_ActiveBufferOnly == []C7_OneActive /\ [][C7_HistoryKept]_vars

\* audio has been appended and evaluated while an older buffer with audio exists
C7_Witness ==
    /\ op.name = "input_audio_buffer.append"
    /\ Len(input_audio_buffers) > 1
    /\ input_audio_buffers[1].size > 0
    /\ input_audio_buffers[1].vad_state.audio_end_ms # None
    /\ active.size > 0
    /\ active.vad_state.audio_start_ms # None

\* no VAD call, no VAD state, no VAD event
C8_NoAnalysis ==
    turn_detection = None =>
        /\ ~vad_invoked
        /\ \A i \in 1..Len(input_audio_buffers) : input_audio_buffers[i].vad_state = VadState
        /\ \A i \in 1..Len(events) :
               events[i].type \notin {"input_audio_buffer.speech_started",
                                      "input_audio_buffer.speech_stopped"}

\* the active buffer changes by a commit of a non-empty buffer or a clear
C8_RotationExplicit ==
    (turn_detection = None /\ last_key(input_audio_buffers') # last_key(input_audio_buffers)) =>
        \/ ran("input_audio_buffer.commit") /\ active.size > 0
        \/ ran("input_audio_buffer.clear")

(* C8: without turn detection the VAD is never invoked, audio_start_ms and *)
(* audio_end_ms of every buffer stay unset, no speech_started and no       *)
(* speech_stopped event is published, and the active buffer changes only   *)
(* by a commit of a non-empty buffer or by a clear.                        *)
C8_NoTurnDetection == []C8_NoAnalysis /\ [][C8_RotationExplicit]_vars

\* without turn detection audio has been appended, committed and appended again
C8_Witness ==
    /\ turn_detection = None
    /\ op.name = "input_audio_buffer.append"
    /\ Len(input_audio_buffers) > 1
    /\ input_audio_buffers[1].size > 0
    /\ active.size > 0

(* C9: no buffer is committed twice: at most one committed event and at    *)
(* most one conversation.item.created event is ever published for a buffer *)
(* id, in every interleaving of client events with the handling of the     *)
(* published speech_stopped and committed events.                          *)
C9_CommittedOnce ==
    \A i, j \in 1..Len(events) :
        /\ (/\ events[i].type = "input_audio_buffer.committed"
            /\ events[j].type = "input_audio_buffer.committed"
            /\ events[i].item_id = events[j].item_id) => i = j
        /\ (/\ events[i].type = "conversation.item.created"
            /\ events[j].type = "conversation.item.created"
            /\ events[i].item.id = events[j].item.id) => i = j

\* the i-th published event is a committed event
is_committed(i) ==
    i <= Len(events) /\ events[i].type = "input_audio_buffer.committed"

\* the i-th published event, a committed event, has been followed by its
\* conversation.item.created event
item_created_for(i) ==
    is_committed(i) /\ \E j \in (i + 1)..Len(events) :
        /\ events[j].type = "conversation.item.created"
        /\ events[j].previous_item_id = None
        /\ events[j].item.id = events[i].item_id
        /\ events[j].item.role = "user"
        /\ events[j].item.status = "completed"
        \* one created event for each committed event published so far
        /\ Cardinality({k \in 1..j : events[k].type = "conversation.item.created"})
             = Cardinality({k \in 1..i : events[k].type = "input_audio_buffer.committed"})

\* every conversation.item.created event follows a committed event for its
\* item id, and its item is the one the conversation holds under that id
C10_CreatedAfterCommitted ==
    \A j \in 1..Len(events) :
        events[j].type = "conversation.item.created" =>
            /\ \E i \in 1..(j - 1) :
                   /\ events[i].type = "input_audio_buffer.committed"
                   /\ events[i].item_id = events[j].item.id
            /\ \E k \in 1..Len(conversation) :
                   /\ conversation[k].id = events[j].item.id
                   /\ conversation[k] = events[j].item

\* the committed events published so far that no conversation.item.created
\* event has followed yet
unanswered == {i \in 1..Len(events) : is_committed(i) /\ ~item_created_for(i)}

(* C10: every published committed event is eventually followed by a        *)
(* conversation.item.created event whose item has the committed item_id,   *)
(* role user and status completed, and whose previous_item_id is null; the *)
(* item is in the conversation under that id; and no                       *)
(* conversation.item.created event is published without an earlier         *)
(* committed event for the same item id.                                   *)
(* Events are never taken back, so a committed event stays answered once   *)
(* it is: each one is eventually answered if, whenever some are not, a     *)
(* state follows in which all are.                                         *)
C10_ItemCreated ==
    /\ []C10_CreatedAfterCommitted
    /\ [][\A i \in 1..Len(events) : item_created_for(i) => item_created_for(i)']_vars
    /\ (unanswered # {}) ~> (unanswered = {})

\* a commit by the client and a commit by the speech_stopped handler have both
\* been answered by a conversation item
C10_Witness ==
    /\ Len(conversation) = 2
    /\ \E i, j \in 1..Len(events) :
           /\ is_committed(i) /\ events[i].previous_item_id = None
           /\ is_committed(j) /\ events[j].previous_item_id # None
           /\ item_created_for(i)
           /\ item_created_for(j)

evaluated == input_audio_buffers'[Len(input_audio_buffers)]

\* an append step that evaluates the active buffer
evaluates == ran("input_audio_buffer.append") /\ turn_detection # None

(* C12: evaluation of a pre-speech buffer: with no span from the VAD no    *)
(* event is published and the VAD state stays; with a span audio_start_ms  *)
(* becomes duration_ms - window_duration_ms + last span start (the window  *)
(* the trailing min(size, 48000) samples, offsets divided by 16),          *)
(* audio_end_ms stays unset and exactly one speech_started event with the  *)
(* buffer's id and that value is published.                                *)
C12_PreSpeech ==
    [][(evaluates /\ active.vad_state.audio_start_ms = None) =>
          LET spans == op'.vad_answer
              start_ms == evaluated.size \div 16
                            - Min(evaluated.size, 48000) \div 16
                            + spans[Len(spans)].start \div 16
          IN  /\ events_extended
              /\ evaluated.id = active.id
              /\ IF spans = <<>>
                 THEN /\ published = <<>>
                      /\ evaluated.vad_state = active.vad_state
                 ELSE /\ evaluated.vad_state =
                            [audio_start_ms |-> <<start_ms>>, audio_end_ms |-> None]
                      /\ published = <<[type |-> "input_audio_buffer.speech_started",
                                        item_id |-> active.id,
                                        audio_start_ms |-> start_ms]>>]_vars

\* a buffer longer than the window got all its audio in one append, and speech
\* that starts inside the window has been found in it
C12_Witness ==
    /\ op.name = "input_audio_buffer.append"
    /\ op.raw_len = 72024
    /\ active.size = 48016
    /\ op.vad_answer # <<>>
    /\ op.vad_answer[Len(op.vad_answer)].start = 44808
    /\ active.vad_state = [audio_start_ms |-> <<2801>>, audio_end_ms |-> None]
    /\ events[Len(events)] = [type |-> "input_audio_buffer.speech_started",
                              item_id |-> active.id,
                              audio_start_ms |-> 2801]

(* C13: evaluation of an in-speech buffer publishes speech_stopped if and  *)
(* only if the VAD returns no span, or the last span ends before 3000 ms   *)
(* while duration_ms > 3000; then audio_end_ms becomes duration_ms -       *)
(* prefix_padding_ms and the event carries the buffer's id and that value. *)
(* In every other case no event is published and the VAD state stays.      *)
C13_InSpeech ==
    [][(/\ evaluates
        /\ active.vad_state.audio_start_ms # None
        /\ active.vad_state.audio_end_ms = None) =>
          LET spans == op'.vad_answer
              dur == evaluated.size \div 16
              end_ms == dur - turn_detection.prefix_padding_ms
              stops == \/ spans = <<>>
                       \/ spans[Len(spans)].end \div 16 < 3000 /\ dur > 3000
          IN  /\ events_extended
              /\ evaluated.id = active.id
              /\ IF stops
                 THEN /\ evaluated.vad_state =
                            [active.vad_state EXCEPT !.audio_end_ms = <<end_ms>>]
                      /\ published = <<[type |-> "input_audio_buffer.speech_stopped",
                                        item_id |-> active.id,
                                        audio_end_ms |-> end_ms]>>
                 ELSE /\ published = <<>>
                      /\ evaluated.vad_state = active.vad_state]_vars

\* a span that ends before 3000 ms has closed a buffer longer than 3000 ms, in
\* the append that made it so long
C13_Witness ==
    /\ op.name = "input_audio_buffer.append"
    /\ op.raw_len = 36000
    /\ op.vad_answer # <<>>
    /\ op.vad_answer[Len(op.vad_answer)].end = 44808
    /\ turn_detection # None
    /\ turn_detection.prefix_padding_ms = 300
    /\ duration_ms(active) = 4500
    /\ active.vad_state.audio_start_ms # None
    /\ active.vad_state.audio_end_ms = <<4200>>
    /\ events[Len(events)] = [type |-> "input_audio_buffer.speech_stopped",
                              item_id |-> active.id,
                              audio_end_ms |-> 4200]
    /\ Cardinality({i \in 1..Len(events) :
                       events[i].type = "input_audio_buffer.speech_stopped"}) = 1

\* what an append step does when the VAD's answer is cut down to its last span
with_last_span_only ==
    LET spans == op'.vad_answer
        appended == buffer_append(active, (2 * op'.raw_len) \div 3)
    IN  vad_detection_flow(appended, turn_detection, <<spans[Len(spans)]>>)

(* C14: when the VAD returns more than one span, the evaluation's outcome  *)
(* (event published, audio_start_ms, audio_end_ms) is the one it has when  *)
(* the VAD returns only the last of these spans.                           *)
C14_LastSpanOnly ==
    [][(evaluates /\ Len(op'.vad_answer) > 1) =>
          /\ events_extended
          /\ evaluated = with_last_span_only.buffer
          /\ published = IF with_last_span_only.event = None
                         THEN <<>>
                         ELSE <<with_last_span_only.event[1]>>]_vars

\* two spans with different starts have been answered for a buffer that got
\* all its audio in this append, and speech has started at the second one
C14_Witness ==
    /\ op.name = "input_audio_buffer.append"
    /\ Len(op.vad_answer) = 2
    /\ op.vad_answer[1].start # op.vad_answer[2].start
    /\ op.raw_len = 72024
    /\ active.size = 48016
    /\ active.vad_state.audio_start_ms =
           <<1 + op.vad_answer[2].start \div 16>>
    /\ events[Len(events)].type = "input_audio_buffer.speech_started"
    /\ events[Len(events)].item_id = active.id

C16_RotatedAtOnce ==
    [][ran("input_audio_buffer.append") =>
          ~\E i \in 1..Len(events) :
               /\ events[i].type = "input_audio_buffer.speech_stopped"
               /\ events[i].item_id = active.id]_vars

(* C17: whenever audio_start_ms and audio_end_ms are both set on a buffer, *)
(* 0 <= audio_start_ms <= audio_end_ms <= duration_ms.                     *)
C17_MarkersOrdered ==
    \A i \in 1..Len(input_audio_buffers) :
        LET buffer == input_audio_buffers[i]
        IN  (buffer.vad_state.audio_start_ms # None
             /\ buffer.vad_state.audio_end_ms # None) =>
                /\ 0 <= buffer.vad_state.audio_start_ms[1]
                /\ buffer.vad_state.audio_start_ms[1] <= buffer.vad_state.audio_end_ms[1]
                /\ buffer.vad_state.audio_end_ms[1] <= duration_ms(buffer)

\* the committed events published so far, in publication order
committed_events ==
    SelectSeq(events, LAMBDA e : e.type = "input_audio_buffer.committed")

(* C18: the committed events form a chain: the previous_item_id of each is *)
(* the item_id of the committed event published just before it, and null   *)
(* or the placeholder for the first one.                                   *)
C18_CommittedChain ==
    \A k \in 1..Len(committed_events) :
        committed_events[k].previous_item_id =
            (IF k = 1
             THEN (IF committed_events[k].previous_item_id = <<"IDK">>
                   THEN <<"IDK">> ELSE <<>>)
             ELSE <<committed_events[k - 1].item_id>>)

(* C19: the id of every conversation item is the id of a buffer that is    *)
(* still in the buffer mapping, and that buffer is not empty.              *)
C19_ItemsAddressable ==
    \A k \in 1..Len(conversation) :
        \E i \in 1..Len(input_audio_buffers) :
            /\ input_audio_buffers[i].id = conversation[k].id
            /\ input_audio_buffers[i].size > 0

\* the events vad_detection_flow returns
is_vad_event(e) ==
    e.type \in {"input_audio_buffer.speech_started",
                "input_audio_buffer.speech_stopped"}

C20_StartedBeforeStopped ==
    \A i \in 1..Len(events) :
        events[i].type = "input_audio_buffer.speech_stopped" =>
            \E j \in 1..(i - 1) :
                /\ events[j].type = "input_audio_buffer.speech_started"
                /\ events[j].item_id = events[i].item_id

C20_OneVadEventPerAppend ==
    ran("input_audio_buffer.append") =>
        /\ Len(published) <= 1
        /\ \A k \in 1..Len(published) : is_vad_event(published[k])
        /\ (turn_detection = None => published = <<>>)

(* C20: in the published stream every speech_stopped event for a buffer id *)
(* has a speech_started event for the same id before it, and one append    *)
(* publishes at most one VAD event, never a start and a stop together.     *)
C20_VadEventOrder ==
    []C20_StartedBeforeStopped /\ [][C20_OneVadEventPerAppend]_vars

\* an append has just published the speech_stopped of a buffer whose
\* speech_started an earlier append published
C20_Witness ==
    /\ op.name = "input_audio_buffer.append"
    /\ Len(events) >= 2
    /\ events[Len(events)].type = "input_audio_buffer.speech_stopped"
    /\ events[Len(events)].item_id = active.id
    /\ active.vad_state.audio_end_ms # None
    /\ \E j \in 1..(Len(events) - 1) :
           /\ events[j].type = "input_audio_buffer.speech_started"
           /\ events[j].item_id = active.id

====
